---- MODULE Spec2Model ----
(***************************************************************************)
(* A model of the localtunnel client: the Tunnel session (registration,    *)
(* _establish, close) and the TunnelCluster pool (open, connLocal, the     *)
(* socket event handlers, destroy), both in src/lib/TunnelCluster.js.      *)
(*                                                                         *)
(* Node runs every callback to completion, so one action is one callback:  *)
(* a socket event, a timer firing, an axios settlement, or a call made by  *)
(* the user of the session (open, close).  A handler is an operator from a *)
(* state record to a state record, so that a handler calling another       *)
(* (remoteClose -> emit('dead') -> Tunnel's dead handler -> open) is one   *)
(* step, as it is in the program.                                          *)
(***************************************************************************)
EXTENDS Integers, Sequences, FiniteSets, TLC

\* ---------------------------------------------------------------- bounds
\* A specification bounds the broker sockets TunnelCluster.open() ever
\* creates and the local sockets connLocal ever creates (first attempts and
\* retries): the socket tables remote and local have that many rows.
\* Spec: a pool of one connection, with room for replacements and retries
MaxOpens == 2
MaxLocals == 2
\* SpecPool: pools of one or two connections
PoolOpens == 2
PoolLocals == 1
\* SpecWide: pools of one or two connections with room for two replacements
WideOpens == 3
WideLocals == 2
\* close() calls made by the user of the session
MaxCloseCalls == 2
\* SpecDestroy: a pool of one connection, with room for a replacement,
\* whose holder also calls the pool's destroy() and open() itself
DestroyOpens == 2
DestroyLocals == 1

\* ---------------------------------------------------------------- inputs
\* body.message / err.response.data.message: absent, empty, or a text
NoMessage == "<undefined>"
Messages == {NoMessage, "", "Subdomain 'test' is already in use."}
\* statuses axios resolves with (validateStatus: 2xx) and rejects with;
\* NetworkError is a rejection that carries no response
NetworkError == 0
ResolvedStatuses == {200, 204}
RejectedStatuses == {409, 500, NetworkError}
\* body.max_conn_count: 0 stands for an absent field
OneConnection == {0}
MaxConnCounts == {0, 2}
\* err.code of a socket error
RemoteErrorCodes == {"ECONNREFUSED", "OTHER"}
ConnectingErrorCodes == {"ECONNREFUSED", "OTHER"}
ConnectedErrorCodes == {"ECONNRESET", "OTHER"}

DefaultServerError == "localtunnel server returned an error, please try again"
DefaultConflict == "Subdomain is already in use"

VARIABLES
  \* Tunnel (the session)
  closed,          \* Tunnel.closed
  initTimeout,     \* Tunnel._initTimeout: "null", "pending" (set, timer armed), "fired" (set, timer ran)
  tunnelCluster,   \* Tunnel.tunnelCluster holds a pool
  handlers,        \* Tunnel._handlers is set
  closeHandlers,   \* broker sockets whose closeHandler listens for the session's 'close'
  userListener,    \* a listener the caller registered on the session
  max_conn,        \* info.max_conn of the assignment
  max_conn_count,  \* the max_conn_count the broker is configured to assign
  \* the calls and callbacks at the session's interface
  opened,          \* open(cb) was called
  inflight,        \* an axios request is outstanding
  response,        \* what axios settled the last request with: status and message
  cbCalls,         \* invocations of open's callback, in order
  closeCalls,      \* close() calls so far
  closeAwait,      \* a close() call is suspended at its await
  closeEmitted,    \* 'close' events emitted by the session
  urlEmitted,      \* 'url' events emitted by the session
  openEvents,      \* 'open' events of the pool seen by Tunnel's open handler
  errorEmitted,    \* 'error' events emitted by the session
  closeSeen,       \* what the session's 'close' event found when it was emitted
  poolCall,        \* the last call the holder of the pool made on it
  \* TunnelCluster (the pool)
  cluster,         \* the TunnelCluster object was constructed
  local_host,      \* opts.local_host is set (Host header transform requested)
  clusterClosed,   \* TunnelCluster.closed
  sockets,         \* TunnelCluster._sockets
  localSockets,    \* TunnelCluster._localSockets
  transformers,    \* TunnelCluster._transformers
  timeouts,        \* TunnelCluster._timeouts
  clusterL,        \* listeners registered on the pool
  pending,         \* retry timers armed and neither fired nor cleared
  remote,          \* the broker sockets, by creation order
  local,           \* the local sockets, by creation order
  remoteCloseL,    \* local attempts whose remoteClose listens for the broker socket's 'close'
  tunnelCloseL     \* broker sockets carrying Tunnel's once('close') listener

vars == <<closed, initTimeout, tunnelCluster, handlers, closeHandlers, userListener,
          max_conn, max_conn_count, opened, inflight, response, cbCalls, closeCalls,
          closeAwait, closeEmitted, urlEmitted, openEvents, errorEmitted, closeSeen,
          poolCall, cluster, local_host,
          clusterClosed, sockets, localSockets, transformers, timeouts, clusterL,
          pending, remote, local, remoteCloseL, tunnelCloseL>>

\* the state as one record; overflow marks a step that needs more sockets
\* than the bounds allow, and such a step is not taken
Cur ==
  [closed |-> closed, initTimeout |-> initTimeout, tunnelCluster |-> tunnelCluster,
   handlers |-> handlers, closeHandlers |-> closeHandlers, userListener |-> userListener,
   max_conn |-> max_conn, max_conn_count |-> max_conn_count, opened |-> opened, inflight |-> inflight,
   response |-> response, cbCalls |-> cbCalls, closeCalls |-> closeCalls,
   closeAwait |-> closeAwait, closeEmitted |-> closeEmitted,
   urlEmitted |-> urlEmitted, openEvents |-> openEvents,
   errorEmitted |-> errorEmitted, closeSeen |-> closeSeen,
   poolCall |-> poolCall, cluster |-> cluster,
   local_host |-> local_host, clusterClosed |-> clusterClosed, sockets |-> sockets,
   localSockets |-> localSockets, transformers |-> transformers, timeouts |-> timeouts,
   clusterL |-> clusterL, pending |-> pending, remote |-> remote, local |-> local,
   remoteCloseL |-> remoteCloseL, tunnelCloseL |-> tunnelCloseL, overflow |-> FALSE]

Install(s) ==
  /\ ~s.overflow
  /\ closed' = s.closed /\ initTimeout' = s.initTimeout
  /\ tunnelCluster' = s.tunnelCluster /\ handlers' = s.handlers
  /\ closeHandlers' = s.closeHandlers /\ userListener' = s.userListener
  /\ max_conn' = s.max_conn /\ max_conn_count' = s.max_conn_count
  /\ opened' = s.opened /\ inflight' = s.inflight
  /\ response' = s.response /\ cbCalls' = s.cbCalls
  /\ closeCalls' = s.closeCalls /\ closeAwait' = s.closeAwait
  /\ closeEmitted' = s.closeEmitted
  /\ urlEmitted' = s.urlEmitted /\ openEvents' = s.openEvents
  /\ errorEmitted' = s.errorEmitted /\ closeSeen' = s.closeSeen
  /\ poolCall' = s.poolCall
  /\ cluster' = s.cluster /\ local_host' = s.local_host
  /\ clusterClosed' = s.clusterClosed /\ sockets' = s.sockets
  /\ localSockets' = s.localSockets /\ transformers' = s.transformers
  /\ timeouts' = s.timeouts /\ clusterL' = s.clusterL /\ pending' = s.pending
  /\ remote' = s.remote /\ local' = s.local
  /\ remoteCloseL' = s.remoteCloseL /\ tunnelCloseL' = s.tunnelCloseL

Min(S) == CHOOSE x \in S : \A y \in S : x <= y

\* a broker socket: st is "none" (not created), "connecting", "open",
\* "destroyed" (remote.destroyed is true, 'close' not yet emitted) or "closed"
\* ('close' emitted); ended: remote.end() was called on it; paused:
\* remote.pause() is in force; parent: the socket whose 'dead' event opened
\* this one (0: opened by _establish); piped: a local socket was piped to it;
\* dead: 'dead' events emitted for it; err: the code of its 'error' event
NoRemote == [st |-> "none", ended |-> FALSE, paused |-> FALSE, parent |-> 0,
             piped |-> FALSE, dead |-> 0, err |-> "none"]
\* a local socket: st is "none", "connecting", "connected" or "destroyed" (its
\* 'close' listener has run once it has left _localSockets); conn: the broker
\* socket it was created for; err: the code of its 'error' event
NoLocal == [st |-> "none", conn |-> 0, ended |-> FALSE, err |-> "none", piped |-> FALSE]

\* no request was settled yet
NoResponse == [status |-> -1, message |-> NoMessage]

\* the session has emitted no 'close' event; listener: a listener of the
\* caller was attached when it was emitted; released: no socket of the pool
\* was live, no retry timer armed and no rewriter tracked when it was emitted
NoCloseSeen == [emitted |-> FALSE, listener |-> FALSE, released |-> FALSE]

\* the holder of the pool has made no call on it; op: "destroy" or "open";
\* closed: the pool was closed when the call was made; flip: a bit every
\* call flips
NoPoolCall == [op |-> "none", closed |-> FALSE, flip |-> FALSE]

AllHandlers == {"firstOpen", "error", "open", "dead", "request"}

\* the state after  new Tunnel(opts): opens and locals bound the sockets the
\* run may create, counts are the values the broker may be configured with
InitOf(opens, locals, counts) ==
  /\ closed = FALSE /\ initTimeout = "null" /\ tunnelCluster = FALSE
  /\ handlers = FALSE /\ closeHandlers = {} /\ userListener = TRUE
  /\ max_conn = 0 /\ max_conn_count \in counts /\ opened = FALSE /\ inflight = FALSE
  /\ response = NoResponse /\ cbCalls = <<>> /\ closeCalls = 0 /\ closeAwait = FALSE
  /\ closeEmitted = 0 /\ urlEmitted = 0 /\ openEvents = 0 /\ errorEmitted = 0
  /\ closeSeen = NoCloseSeen /\ poolCall = NoPoolCall
  /\ cluster = FALSE /\ local_host \in BOOLEAN /\ clusterClosed = FALSE
  /\ sockets = {} /\ localSockets = {} /\ transformers = {} /\ timeouts = {}
  /\ clusterL = {} /\ pending = {}
  /\ remote = [c \in 1..opens |-> NoRemote] /\ local = [l \in 1..locals |-> NoLocal]
  /\ remoteCloseL = {} /\ tunnelCloseL = {}

Init == InitOf(MaxOpens, MaxLocals, OneConnection)
InitPool == InitOf(PoolOpens, PoolLocals, MaxConnCounts)
InitWide == InitOf(WideOpens, WideLocals, MaxConnCounts)
InitDestroy == InitOf(DestroyOpens, DestroyLocals, OneConnection)

Conns == DOMAIN remote
Locals == DOMAIN local

\* ------------------------------------------------------ TunnelCluster
FreeConns(s) == {c \in DOMAIN s.remote : s.remote[c].st = "none"}
FreeLocals(s) == {l \in DOMAIN s.local : s.local[l].st = "none"}

\* remote.destroyed
Destroyed(s, c) == s.remote[c].st \in {"destroyed", "closed"}

\* remote.destroy(): a no-op on a destroyed socket
RemoteDestroy(s, c) ==
  IF Destroyed(s, c) THEN s ELSE [s EXCEPT !.remote[c].st = "destroyed"]

\* remote.end(): a no-op on a destroyed socket
RemoteEnd(s, c) ==
  IF Destroyed(s, c) THEN s ELSE [s EXCEPT !.remote[c].ended = TRUE]

\* local.end(): a no-op on a destroyed socket
LocalEnd(s, l) ==
  IF s.local[l].st = "destroyed" THEN s
  ELSE [s EXCEPT !.local[l].ended = TRUE]

\* TunnelCluster.open(), called for the 'dead' event of socket p (0: by _establish)
ClusterOpen(s, p) ==
  IF s.clusterClosed THEN s
  ELSE IF FreeConns(s) = {} THEN [s EXCEPT !.overflow = TRUE]
  ELSE LET c == Min(FreeConns(s)) IN
       [s EXCEPT !.remote[c] = [NoRemote EXCEPT !.st = "connecting", !.parent = p],
                 !.sockets = @ \cup {c}]

\* Tunnel._handlers.dead
DeadHandler(s, c) ==
  IF s.closed THEN s ELSE ClusterOpen(s, c)

\* this.emit('dead') in a closure of broker socket c
EmitDead(s, c) ==
  LET s1 == [s EXCEPT !.remote[c].dead = @ + 1] IN
  IF "dead" \in s1.clusterL THEN DeadHandler(s1, c) ELSE s1

\* mutant: connLocal testing remote.destroyed before this.closed
ConnLocalDestroyedFirst(s, c) ==
  IF Destroyed(s, c) THEN EmitDead(s, c)
  ELSE IF s.clusterClosed THEN RemoteDestroy(s, c)
  ELSE IF FreeLocals(s) = {} THEN [s EXCEPT !.overflow = TRUE]
  ELSE LET l == Min(FreeLocals(s)) IN
       [s EXCEPT !.remote[c].paused = TRUE,
                 !.local[l] = [NoLocal EXCEPT !.st = "connecting", !.conn = c],
                 !.localSockets = @ \cup {l},
                 !.remoteCloseL = @ \cup {l}]

\* connLocal of broker socket c
ConnLocal(s, c) ==
  IF s.clusterClosed THEN RemoteDestroy(s, c)
  ELSE IF Destroyed(s, c) THEN EmitDead(s, c)
  ELSE IF FreeLocals(s) = {} THEN [s EXCEPT !.overflow = TRUE]
  ELSE LET l == Min(FreeLocals(s)) IN
       [s EXCEPT !.remote[c].paused = TRUE,
                 !.local[l] = [NoLocal EXCEPT !.st = "connecting", !.conn = c],
                 !.localSockets = @ \cup {l},
                 !.remoteCloseL = @ \cup {l}]

\* remoteClose of local attempt l
RemoteClose(s, l) ==
  LocalEnd(EmitDead(s, s.local[l].conn), l)

\* mutant: the once('error') listener retrying on ECONNREFUSED only
LocalErrorResetIsFatal(s, l, code) ==
  LET c == s.local[l].conn
      s1 == LocalEnd(s, l)
      s2 == [s1 EXCEPT !.remoteCloseL = @ \ {l}]
  IN IF code # "ECONNREFUSED"
     THEN RemoteEnd(s2, c)
     ELSE [s2 EXCEPT !.pending = @ \cup {l}, !.timeouts = @ \cup {l}]

\* mutant: the once('error') listener retrying whatever the code
LocalErrorAlwaysRetries(s, l, code) ==
  LET s1 == LocalEnd(s, l)
      s2 == [s1 EXCEPT !.remoteCloseL = @ \ {l}]
  IN [s2 EXCEPT !.pending = @ \cup {l}, !.timeouts = @ \cup {l}]

\* mutant: the once('error') listener calling connLocal at once as well as
\* arming the timer
LocalErrorRetriesTwice(s, l, code) ==
  LET c == s.local[l].conn
      s1 == LocalEnd(s, l)
      s2 == [s1 EXCEPT !.remoteCloseL = @ \ {l}]
  IN IF code # "ECONNREFUSED" /\ code # "ECONNRESET"
     THEN RemoteEnd(s2, c)
     ELSE ConnLocal([s2 EXCEPT !.pending = @ \cup {l}, !.timeouts = @ \cup {l}], c)

\* the once('error') listener of local attempt l
LocalErrorHandler(s, l, code) ==
  LET c == s.local[l].conn
      s1 == LocalEnd(s, l)
      s2 == [s1 EXCEPT !.remoteCloseL = @ \ {l}]
  IN IF code # "ECONNREFUSED" /\ code # "ECONNRESET"
     THEN RemoteEnd(s2, c)
     ELSE [s2 EXCEPT !.pending = @ \cup {l}, !.timeouts = @ \cup {l}]

\* the once('connect') listener of local attempt l
LocalConnectHandler(s, l) ==
  LET c == s.local[l].conn
      s1 == [s EXCEPT !.remote[c].paused = FALSE]
      s2 == IF s1.local_host THEN [s1 EXCEPT !.transformers = @ \cup {l}] ELSE s1
  IN [s2 EXCEPT !.local[l].piped = TRUE, !.remote[c].piped = TRUE]

\* mutant: firstOpen registered with on instead of once
FirstOpenEveryTime(s) ==
  [s EXCEPT !.urlEmitted = @ + 1]

\* Tunnel._handlers.firstOpen, registered with once
FirstOpen(s) ==
  [s EXCEPT !.urlEmitted = @ + 1, !.clusterL = @ \ {"firstOpen"}]

\* Tunnel._handlers.open
OpenHandler(s, c) ==
  LET s1 == [s EXCEPT !.openEvents = @ + 1] IN
  IF s1.closed THEN RemoteDestroy(s1, c)
  ELSE [s1 EXCEPT !.closeHandlers = @ \cup {c}, !.tunnelCloseL = @ \cup {c}]

\* Tunnel._handlers.error
ErrorHandler(s) == [s EXCEPT !.errorEmitted = @ + 1]

\* this.emit('open', remote) for broker socket c
EmitOpen(s, c) ==
  LET s1 == IF "firstOpen" \in s.clusterL THEN FirstOpen(s) ELSE s
  IN IF "open" \in s1.clusterL THEN OpenHandler(s1, c) ELSE s1

\* the once('connect') listener of broker socket c
RemoteConnectHandler(s, c) ==
  ConnLocal(EmitOpen(s, c), c)

\* the on('error') listener of broker socket c
RemoteErrorHandler(s, c, code) ==
  LET s1 == IF code = "ECONNREFUSED" /\ "error" \in s.clusterL
            THEN ErrorHandler(s) ELSE s
  IN RemoteEnd(s1, c)

\* the 'close' listeners of broker socket c, in the order they were registered
RECURSIVE RunRemoteClose(_, _)
RunRemoteClose(s, ls) ==
  IF ls = {} THEN s
  ELSE LET l == Min(ls) IN RunRemoteClose(RemoteClose(s, l), ls \ {l})

RemoteCloseListeners(s, c) ==
  LET s1 == [s EXCEPT !.sockets = @ \ {c}]
      s2 == IF c \in s1.tunnelCloseL
            THEN [s1 EXCEPT !.closeHandlers = @ \ {c}, !.tunnelCloseL = @ \ {c}]
            ELSE s1
      ls == {l \in s2.remoteCloseL : s2.local[l].conn = c}
  IN RunRemoteClose([s2 EXCEPT !.remoteCloseL = @ \ ls], ls)

\* mutant: destroy() without its loop over this._localSockets
ClusterDestroyKeepsLocals(s) ==
  IF s.clusterClosed THEN s
  ELSE [s EXCEPT
         !.clusterClosed = TRUE,
         !.pending = @ \ s.timeouts,
         !.timeouts = {},
         !.transformers = {},
         !.localSockets = {},
         !.remote = [c \in DOMAIN s.remote |->
                      IF c \in s.sockets /\ s.remote[c].st \in {"connecting", "open"}
                      THEN [s.remote[c] EXCEPT !.st = "destroyed"] ELSE s.remote[c]],
         !.sockets = {},
         !.clusterL = {}]

\* mutant: destroy() without its loop over this._timeouts
ClusterDestroyKeepsTimers(s) ==
  IF s.clusterClosed THEN s
  ELSE [s EXCEPT
         !.clusterClosed = TRUE,
         !.timeouts = {},
         !.transformers = {},
         !.local = [l \in DOMAIN s.local |->
                      IF l \in s.localSockets /\ s.local[l].st \in {"connecting", "connected"}
                      THEN [s.local[l] EXCEPT !.st = "destroyed"] ELSE s.local[l]],
         !.localSockets = {},
         !.remote = [c \in DOMAIN s.remote |->
                      IF c \in s.sockets /\ s.remote[c].st \in {"connecting", "open"}
                      THEN [s.remote[c] EXCEPT !.st = "destroyed"] ELSE s.remote[c]],
         !.sockets = {},
         !.clusterL = {}]

\* TunnelCluster.destroy()
ClusterDestroy(s) ==
  IF s.clusterClosed THEN s
  ELSE [s EXCEPT
         !.clusterClosed = TRUE,
         !.pending = @ \ s.timeouts,
         !.timeouts = {},
         !.transformers = {},
         !.local = [l \in DOMAIN s.local |->
                      IF l \in s.localSockets /\ s.local[l].st \in {"connecting", "connected"}
                      THEN [s.local[l] EXCEPT !.st = "destroyed"] ELSE s.local[l]],
         !.localSockets = {},
         !.remote = [c \in DOMAIN s.remote |->
                      IF c \in s.sockets /\ s.remote[c].st \in {"connecting", "open"}
                      THEN [s.remote[c] EXCEPT !.st = "destroyed"] ELSE s.remote[c]],
         !.sockets = {},
         !.clusterL = {}]

\* ------------------------------------------------------------- Tunnel
\* JavaScript's  m || dflt  on a message: undefined and "" are falsy
OrDefault(m, dflt) == IF m = NoMessage \/ m = "" THEN dflt ELSE m

\* _getInfo: max_conn: max_conn_count || 1
GetInfoMaxConn(mcc) == IF mcc = 0 THEN 1 ELSE mcc

\* the for loop of _establish: n calls of tunnelCluster.open()
RECURSIVE OpenTimes(_, _)
OpenTimes(s, n) == IF n = 0 THEN s ELSE OpenTimes(ClusterOpen(s, 0), n - 1)

\* Tunnel._establish(info)
Establish(s, mc) ==
  OpenTimes([s EXCEPT !.max_conn = mc, !.cluster = TRUE, !.tunnelCluster = TRUE,
                      !.handlers = TRUE, !.clusterL = AllHandlers], mc)

\* the callback Tunnel.open hands to _init, called with an error
OpenFailed(s, message) ==
  [s EXCEPT !.cbCalls = Append(@, [ok |-> FALSE, message |-> message])]

\* the callback Tunnel.open hands to _init, called with the assignment
OpenSucceeded(s, mc) ==
  LET s1 == Establish(s, mc) IN
  [s1 EXCEPT !.cbCalls = Append(@, [ok |-> TRUE, message |-> ""])]

\* the .then of getUrl: axios resolved with this status and body
GetUrlThen(s, status, message, mcc) ==
  IF status # 200 THEN OpenFailed(s, OrDefault(message, DefaultServerError))
  ELSE OpenSucceeded(s, GetInfoMaxConn(mcc))

\* mutant: the .catch of getUrl without its 409 branch
GetUrlCatchRetriesConflict(s, status, message) ==
  [s EXCEPT !.initTimeout = "pending"]

\* mutant: the .catch of getUrl failing on every rejection
GetUrlCatchNeverRetries(s, status, message) ==
  OpenFailed(s, OrDefault(message, DefaultConflict))

\* the .catch of getUrl: axios rejected, with this response status or none
GetUrlCatch(s, status, message) ==
  IF status = 409 THEN OpenFailed(s, OrDefault(message, DefaultConflict))
  ELSE [s EXCEPT !.initTimeout = "pending"]

\* getUrl(): one axios.get
GetUrl(s) == [s EXCEPT !.inflight = TRUE]

\* closeHandler of every broker socket listening for the session's 'close'
RECURSIVE RunCloseHandlers(_, _)
RunCloseHandlers(s, cs) ==
  IF cs = {} THEN s
  ELSE LET c == Min(cs) IN RunCloseHandlers(RemoteDestroy(s, c), cs \ {c})

\* what a listener of the session's 'close' event finds
SeenAtClose(s) ==
  [emitted |-> TRUE,
   listener |-> s.userListener,
   released |-> /\ \A c \in DOMAIN s.remote : s.remote[c].st \notin {"connecting", "open"}
                /\ \A l \in DOMAIN s.local : s.local[l].st \notin {"connecting", "connected"}
                /\ s.pending = {} /\ s.transformers = {}]

\* this.emit('close') of the session: the once listeners run and are removed
EmitClose(s) ==
  LET cs == s.closeHandlers IN
  RunCloseHandlers([s EXCEPT !.closeEmitted = @ + 1, !.closeHandlers = {},
                             !.closeSeen = SeenAtClose(s)], cs)

\* mutant: close() emitting 'close' before it cleans up the pool
TunnelCloseBodyEmitsFirst(s) ==
  LET s1 == [s EXCEPT !.closed = TRUE]
      s2 == IF s1.initTimeout # "null" THEN [s1 EXCEPT !.initTimeout = "null"] ELSE s1
      s3 == EmitClose(s2)
      s4 == IF s3.tunnelCluster
            THEN LET s41 == IF s3.handlers
                            THEN [s3 EXCEPT !.clusterL = @ \ AllHandlers,
                                            !.handlers = FALSE]
                            ELSE s3
                 IN [ClusterDestroy(s41) EXCEPT !.tunnelCluster = FALSE]
            ELSE s3
  IN [s4 EXCEPT !.closeAwait = TRUE]

\* Tunnel.close() past its guard, up to its await
TunnelCloseBody(s) ==
  LET s1 == [s EXCEPT !.closed = TRUE]
      s2 == IF s1.initTimeout # "null" THEN [s1 EXCEPT !.initTimeout = "null"] ELSE s1
      s3 == IF s2.tunnelCluster
            THEN LET s31 == IF s2.handlers
                            THEN [s2 EXCEPT !.clusterL = @ \ AllHandlers,
                                            !.handlers = FALSE]
                            ELSE s2
                 IN [ClusterDestroy(s31) EXCEPT !.tunnelCluster = FALSE]
            ELSE s2
  IN [EmitClose(s3) EXCEPT !.closeAwait = TRUE]

\* mutant: close() without its  if (this.closed) return
TunnelCloseUnguarded(s) == TunnelCloseBody(s)

\* Tunnel.close() up to its await
TunnelClose(s) ==
  IF s.closed THEN s ELSE TunnelCloseBody(s)

\* Tunnel.close() after its await: this.removeAllListeners()
TunnelCloseResume(s) ==
  [s EXCEPT !.closeHandlers = {}, !.userListener = FALSE, !.closeAwait = FALSE]

\* ------------------------------------------------------------ actions
\* the caller calls tunnel.open(cb)
Open ==
  /\ ~opened
  /\ Install(GetUrl([Cur EXCEPT !.opened = TRUE]))

\* axios resolves the outstanding request
RegResolve ==
  /\ inflight
  /\ \E status \in ResolvedStatuses, message \in Messages :
       /\ status = 200 => message = NoMessage
       /\ Install(GetUrlThen([Cur EXCEPT !.inflight = FALSE,
                                         !.response = [status |-> status, message |-> message]],
                             status, message, max_conn_count))

\* axios rejects the outstanding request
RegReject ==
  /\ inflight
  /\ \E status \in RejectedStatuses, message \in Messages :
       /\ status = NetworkError => message = NoMessage
       /\ Install(GetUrlCatch([Cur EXCEPT !.inflight = FALSE,
                                          !.response = [status |-> status, message |-> message]],
                              status, message))

\* the timer of _init fires: setTimeout(getUrl, 1000)
InitTimerFire ==
  /\ initTimeout = "pending"
  /\ Install(GetUrl([Cur EXCEPT !.initTimeout = "fired"]))

\* the caller calls tunnel.close() on the session localtunnel() handed out,
\* which has called open() on it
Close ==
  /\ opened
  /\ closeCalls < MaxCloseCalls
  /\ Install(TunnelClose([Cur EXCEPT !.closeCalls = @ + 1]))

\* setImmediate resolves the promise close() awaits
CloseResume ==
  /\ closeAwait
  /\ Install(TunnelCloseResume(Cur))

\* a broker socket connects
RemoteConnect ==
  \E c \in Conns :
    /\ remote[c].st = "connecting"
    /\ Install(RemoteConnectHandler([Cur EXCEPT !.remote[c].st = "open"], c))

\* a broker socket fails to connect: the socket is destroyed with the error
RemoteConnectError ==
  \E c \in Conns, code \in RemoteErrorCodes :
    /\ remote[c].st = "connecting"
    /\ Install(RemoteErrorHandler(
                 [Cur EXCEPT !.remote[c].st = "destroyed", !.remote[c].err = code], c, code))

\* the broker closes or resets an open socket: the socket is destroyed
RemoteDrop ==
  \E c \in Conns :
    /\ remote[c].st = "open"
    /\ Install(RemoteErrorHandler([Cur EXCEPT !.remote[c].st = "destroyed"], c, "OTHER"))

\* a destroyed broker socket emits 'close'
RemoteCloseEvent ==
  \E c \in Conns :
    /\ remote[c].st = "destroyed"
    /\ Install(RemoteCloseListeners([Cur EXCEPT !.remote[c].st = "closed"], c))

\* a local socket connects
LocalConnect ==
  \E l \in Locals :
    /\ local[l].st = "connecting"
    /\ Install(LocalConnectHandler([Cur EXCEPT !.local[l].st = "connected"], l))

\* a local socket fails: it is destroyed with the error and emits 'error'
LocalError ==
  \E l \in Locals :
    \E code \in IF local[l].st = "connecting" THEN ConnectingErrorCodes
                ELSE ConnectedErrorCodes :
      /\ local[l].st \in {"connecting", "connected"}
      /\ Install(LocalErrorHandler(
                   [Cur EXCEPT !.local[l].st = "destroyed", !.local[l].err = code], l, code))

\* the local service ends a connected socket: local emits 'end', the pipe
\* local.pipe(remote) ends the broker socket, and the local socket is destroyed
LocalEndByPeer ==
  \E l \in Locals :
    /\ local[l].st = "connected"
    /\ Install(RemoteEnd([Cur EXCEPT !.local[l].st = "destroyed"], local[l].conn))

\* mutant: the 'close' listener of a local socket asking for a new broker
\* socket, as the comment above it says
LocalCloseEmitsDead ==
  \E l \in Locals :
    /\ local[l].st = "destroyed"
    /\ l \in localSockets
    /\ Install(EmitDead([Cur EXCEPT !.localSockets = @ \ {l}], local[l].conn))

\* a destroyed local socket emits 'close': this._localSockets.delete(local)
LocalCloseEvent ==
  \E l \in Locals :
    /\ local[l].st = "destroyed"
    /\ l \in localSockets
    /\ Install([Cur EXCEPT !.localSockets = @ \ {l}])

\* a retry timer fires: setTimeout(connLocal, 1000)
RetryTimerFire ==
  \E l \in Locals :
    /\ l \in pending
    /\ Install(ConnLocal([Cur EXCEPT !.pending = @ \ {l}], local[l].conn))

\* a rewriter whose broker socket is gone emits 'close':
\* this._transformers.delete(transformer)
TransformerCloseEvent ==
  \E t \in transformers :
    /\ Destroyed(Cur, local[t].conn)
    /\ local[t].st = "connected"
    /\ Install([Cur EXCEPT !.transformers = @ \ {t}])

\* the holder of the pool makes a call on it
Called(s, op) ==
  [s EXCEPT !.poolCall = [op |-> op, closed |-> s.clusterClosed, flip |-> ~@.flip]]

\* the holder of the pool (tunnel.tunnelCluster) calls destroy() on it
Destroy ==
  /\ cluster
  /\ Install(ClusterDestroy(Called(Cur, "destroy")))

\* the holder of the pool calls open() on it after the pool was destroyed
OpenAfterDestroy ==
  /\ cluster
  /\ clusterClosed
  /\ Install(ClusterOpen(Called(Cur, "open"), 0))

\* a broker socket connects and a listener the holder of the pool registered
\* for its 'open' event calls destroy(): the listener runs after Tunnel's,
\* between this.emit('open', remote) and connLocal()
DestroyOnOpen ==
  \E c \in Conns :
    /\ remote[c].st = "connecting"
    /\ LET s1 == EmitOpen([Cur EXCEPT !.remote[c].st = "open"], c)
           s2 == ClusterDestroy(Called(s1, "destroy"))
       IN Install(ConnLocal(s2, c))

Next ==
  \/ Open \/ RegResolve \/ RegReject \/ InitTimerFire \/ Close \/ CloseResume
  \/ RemoteConnect \/ RemoteConnectError \/ RemoteDrop \/ RemoteCloseEvent
  \/ LocalConnect \/ LocalError \/ LocalEndByPeer \/ LocalCloseEvent
  \/ RetryTimerFire \/ TransformerCloseEvent

\* the steps of a run in which the pool is also driven by its holder
NextDestroy ==
  \/ Next
  \/ Destroy \/ OpenAfterDestroy \/ DestroyOnOpen

Spec == Init /\ [][Next]_vars
SpecPool == InitPool /\ [][Next]_vars
SpecWide == InitWide /\ [][Next]_vars
SpecDestroy == InitDestroy /\ [][NextDestroy]_vars

\* ------------------------------------------------------------- claims
\* a broker socket that is created and not destroyed
Live(c) == remote[c].st \in {"connecting", "open"}
\* a local socket that is connecting or connected
LiveLocal(l) == local[l].st \in {"connecting", "connected"}
\* the connections open() created for the 'dead' events of broker socket c
Replacements(c) == {d \in Conns : remote[d].st # "none" /\ remote[d].parent = c}
\* the local attempts made for broker socket c
AttemptsOf(c) == {l \in Locals : local[l].st # "none" /\ local[l].conn = c}
\* nothing is outstanding for broker socket c: no local socket of it is
\* live and no retry timer of it is armed
Settled(c) == \A l \in AttemptsOf(c) : ~LiveLocal(l) /\ l \notin pending
\* the session is open and listens to a pool that is open
PoolOpen == ~closed /\ ~clusterClosed /\ "dead" \in clusterL

\* C1: in a pool that is not closed, a broker socket that reached Piping and
\* has closed was replaced by exactly one connection (once the local events
\* of that connection have played out).
C1_ExactlyOneReplacement ==
  \A c \in Conns :
    (PoolOpen /\ remote[c].piped /\ remote[c].st = "closed" /\ Settled(c))
      => Cardinality(Replacements(c)) = 1

\* C2: the broker sockets of the pool that are live are never more than
\* max_conn.
C2_LiveAtMostMaxConn ==
  Cardinality({c \in Conns : Live(c)}) <= max_conn

\* C3: once close() was called before the open callback ran, no registration
\* attempt starts and the open callback is not invoked with success.
C3_CloseCancelsRegistration ==
  [][(closed /\ opened /\ cbCalls = <<>>)
       => /\ ~(~inflight /\ inflight')
          /\ \A i \in DOMAIN cbCalls' : ~cbCalls'[i].ok]_vars

\* the session holds no pool, no socket is live, no timer is armed and no
\* listener is registered on the session
Quiescent ==
  /\ ~tunnelCluster
  /\ \A c \in Conns : ~Live(c)
  /\ \A l \in Locals : ~LiveLocal(l)
  /\ initTimeout # "pending"
  /\ pending = {}
  /\ closeHandlers = {}
  /\ ~userListener

\* C4: once a close() call has finished, the session is quiescent.
C4_QuiescentAfterClose ==
  (closed /\ ~closeAwait) => Quiescent

\* every variable but closeCalls
varsButCloseCalls ==
  <<closed, initTimeout, tunnelCluster, handlers, closeHandlers, userListener,
    max_conn, max_conn_count, opened, inflight, response, cbCalls,
    closeAwait, closeEmitted, urlEmitted, openEvents, errorEmitted, closeSeen,
    poolCall, cluster, local_host,
    clusterClosed, sockets, localSockets, transformers, timeouts, clusterL,
    pending, remote, local, remoteCloseL, tunnelCloseL>>

\* C5: however many close() calls were made, 'close' was emitted once, and
\* a close() call on a closed session (after the first call ended or while it
\* awaits) changes nothing.
C5_CloseIdempotent ==
  [][/\ closeEmitted' = (IF closeCalls' = 0 THEN 0 ELSE 1)
     /\ (closed /\ closeCalls' # closeCalls) => UNCHANGED varsButCloseCalls]_vars

\* a second close() call was made while the first one awaits
C5_Witness == closeCalls = 2 /\ closeAwait /\ closeEmitted = 1 /\ cluster

\* the request was answered with a 409: nothing is retried, the open
\* callback ran once, with an error, and no pool exists
ConflictIsFinal ==
  /\ initTimeout # "pending" /\ ~inflight
  /\ Len(cbCalls) = 1 /\ ~cbCalls[1].ok
  /\ ~cluster /\ ~tunnelCluster

\* C6 as claimed: after a 409 nothing is retried, the open callback ran
\* once with an error whose message is the message the server supplied, and
\* no pool exists.
C6_ConflictMessageVerbatim ==
  response.status = 409 =>
    /\ ConflictIsFinal
    /\ response.message # NoMessage => cbCalls[1].message = response.message

\* C6 as amended: after a 409 nothing is retried, the open callback ran once
\* with an error, and no pool exists; the error's message is the server's
\* message when that is not empty, and 'Subdomain is already in use' when
\* the server sent none or an empty one.
C6_ConflictFailsOnce ==
  response.status = 409 =>
    /\ ConflictIsFinal
    /\ response.message \notin {NoMessage, ""} => cbCalls[1].message = response.message
    /\ response.message \in {NoMessage, ""} => cbCalls[1].message = "Subdomain is already in use"

\* a 409 with a message arrived on a retry
C6_Witness ==
  /\ response.status = 409 /\ response.message = "Subdomain 'test' is already in use."
  /\ initTimeout = "fired" /\ Len(cbCalls) = 1

\* a step in which axios settles the outstanding request
Settles == inflight /\ ~inflight'

\* C7 as claimed: an attempt that ends with anything but a 200 or a 409 does
\* not invoke the open callback and arms the retry timer.
C7_EveryFailureRetried ==
  [][(Settles /\ response'.status \notin {200, 409})
       => (cbCalls' = cbCalls /\ initTimeout' = "pending")]_vars

\* C7 as amended: an attempt axios rejects with anything but a 409 does not
\* invoke the open callback and arms the retry timer; an armed timer starts
\* a new attempt when it fires, and only close() disarms it; an attempt
\* axios resolves with a status other than 200 invokes the open callback
\* once with an error and arms no timer.
C7_RejectionsRetried ==
  [][/\ (Settles /\ response'.status \in {500, NetworkError})
          => (cbCalls' = cbCalls /\ initTimeout' = "pending")
     /\ (Settles /\ response'.status = 204)
          => (/\ Len(cbCalls') = Len(cbCalls) + 1
              /\ ~cbCalls'[Len(cbCalls')].ok
              /\ initTimeout' # "pending")
     /\ (initTimeout = "pending" /\ initTimeout' # "pending")
          => \/ initTimeout' = "fired" /\ ~inflight /\ inflight'
             \/ initTimeout' = "null" /\ ~closed /\ closed']_vars

\* a retry is in flight after an attempt that failed with a 500
C7_Witness ==
  /\ initTimeout = "fired" /\ inflight /\ response.status = 500 /\ cbCalls = <<>>

Retryable == {"ECONNREFUSED", "ECONNRESET"}

\* C9: while the pool is open and the broker socket is open, a local socket
\* failing with refused or reset arms a retry timer and touches no broker
\* socket; the timer firing creates a local socket for the same broker
\* socket and creates or destroys no broker socket.  This holds for every
\* attempt, whatever its number.
C9_RetryKeepsBrokerSocket ==
  [][\A l \in Locals :
       LET c == local[l].conn IN
       /\ (/\ local[l].err = "none" /\ local'[l].err \in Retryable
           /\ ~clusterClosed /\ remote[c].st = "open")
            => (l \in pending' /\ remote' = remote)
       /\ (/\ l \in pending /\ l \notin pending'
           /\ ~clusterClosed' /\ remote[c].st = "open")
            => /\ \E n \in Locals : /\ local[n].st = "none"
                                    /\ local'[n].st = "connecting"
                                    /\ local'[n].conn = c
               /\ \A d \in Conns : remote'[d].st = remote[d].st]_vars

\* a second attempt is under way on the broker socket of a refused or reset one
C9_Witness ==
  \E l \in Locals, n \in Locals :
    /\ l < n /\ local[l].conn = local[n].conn
    /\ local[l].err \in Retryable /\ local[n].st = "connecting"
    /\ remote[local[n].conn].st = "open"
    /\ \E d \in Conns : remote[d].st = "none"

\* C10: a local socket that failed with another code has no retry timer,
\* its broker socket was ended (or was destroyed already), and no later
\* local attempt exists for that broker socket.
C10_OtherErrorIsFinal ==
  \A l \in Locals :
    local[l].err = "OTHER" =>
      LET c == local[l].conn IN
      /\ l \notin pending /\ l \notin timeouts
      /\ remote[c].ended \/ Destroyed(Cur, c)
      /\ \A n \in AttemptsOf(c) : n <= l

\* a retried attempt failed with another code and the broker socket, still
\* open, was ended
C10_Witness ==
  \E l \in Locals, n \in Locals :
    /\ l < n /\ local[l].conn = local[n].conn
    /\ local[l].err \in Retryable /\ local[n].err = "OTHER"
    /\ remote[local[n].conn].st = "open" /\ remote[local[n].conn].ended

\* C11: a broker socket refused by the broker, and a local socket failing
\* with a code other than refused or reset, each make the session emit one
\* 'error' event in that step; the connection is torn down (the broker
\* socket is destroyed or ended) and nothing is retried for it.
C11_FatalFailureSurfaced ==
  [][/\ \A c \in Conns :
          (remote[c].err = "none" /\ remote'[c].err = "ECONNREFUSED")
            => /\ errorEmitted' = errorEmitted + 1
               /\ remote'[c].st \in {"destroyed", "closed"}
               /\ \A l \in Locals : local'[l].conn # c
     /\ \A l \in Locals :
          (local[l].err = "none" /\ local'[l].err \notin Retryable \cup {"none"})
            => /\ errorEmitted' = errorEmitted + 1
               /\ l \notin pending'
               /\ LET c == local[l].conn IN
                  remote'[c].ended \/ remote'[c].st \in {"destroyed", "closed"}]_vars

\* C12: in a pool that is not closed, a broker socket that was established
\* (a local attempt was made for it) and has closed had a 'dead' event and a
\* replacement connection, once no local socket and no retry timer of it is
\* outstanding.
C12_BrokerCloseIsDeath ==
  \A c \in Conns :
    (PoolOpen /\ remote[c].st = "closed" /\ AttemptsOf(c) # {} /\ Settled(c))
      => (remote[c].dead >= 1 /\ Replacements(c) # {})

\* every variable but poolCall
varsButPoolCall ==
  <<closed, initTimeout, tunnelCluster, handlers, closeHandlers, userListener,
    max_conn, max_conn_count, opened, inflight, response, cbCalls, closeCalls,
    closeAwait, closeEmitted, urlEmitted, openEvents, errorEmitted, closeSeen,
    cluster, local_host, clusterClosed, sockets, localSockets, transformers,
    timeouts, clusterL, pending, remote, local, remoteCloseL, tunnelCloseL>>

\* the step is a call of the pool's destroy() by its holder
DestroyCalled == poolCall' # poolCall /\ poolCall'.op = "destroy"

\* the pool is closed and holds nothing: its tracking sets are empty, no
\* socket of it is live and no retry timer is armed
Released ==
  /\ clusterClosed
  /\ sockets = {} /\ localSockets = {} /\ transformers = {} /\ timeouts = {}
  /\ pending = {}
  /\ \A c \in Conns : ~Live(c)
  /\ \A l \in Locals : ~LiveLocal(l)

\* C13: every destroy() call leaves the pool closed with everything
\* released, whatever its connections were doing, and a destroy() call on a
\* closed pool changes nothing.
C13_DestroyIdempotent ==
  [][DestroyCalled
       => /\ Released'
          /\ clusterClosed => UNCHANGED varsButPoolCall]_vars

\* destroy() was called on the pool a second time, the first call having
\* found a piping connection with a rewriter
C13_Witness ==
  /\ poolCall.op = "destroy" /\ poolCall.closed /\ ~closed
  /\ \E c \in Conns : remote[c].piped /\ remote[c].st = "destroyed"
  /\ \E l \in Locals : local[l].piped /\ local[l].st = "destroyed" /\ local[l].err = "none"
  /\ local_host

\* the step is a call of the pool's open() by its holder
OpenCalled == poolCall' # poolCall /\ poolCall'.op = "open"

\* C14: when the pool becomes closed no retry timer is left armed or
\* tracked; once it is closed it stays closed, no broker socket and no local
\* socket is created, no retry timer is armed, and an open() call changes
\* nothing.
C14_NothingAfterDestroy ==
  [][/\ clusterClosed' => (pending' = {} /\ timeouts' = {})
     /\ clusterClosed
          => /\ clusterClosed'
             /\ \A c \in Conns : remote[c].st = "none" => remote'[c].st = "none"
             /\ \A l \in Locals : local[l].st = "none" => local'[l].st = "none"
             /\ OpenCalled => UNCHANGED varsButPoolCall]_vars

\* open() was called on a pool that was destroyed while a broker socket was
\* open and the retry timer of its refused local socket was armed: the timer
\* never ran
C14_Witness ==
  /\ poolCall.op = "open" /\ poolCall.closed /\ ~closed
  /\ \E l \in Locals :
       /\ local[l].err = "ECONNREFUSED" /\ l \notin pending
       /\ remote[local[l].conn].st = "destroyed" /\ remote[local[l].conn].dead = 0
       /\ \A n \in AttemptsOf(local[l].conn) : n <= l

\* C15: the step that emits the session's 'close' has destroyed the pool
\* before emitting (no socket live, no timer armed, no rewriter tracked at
\* the emission), the caller's listener is attached at the emission and
\* still after the step, and the listener is detached only by the step that
\* resumes close() after its await.
C15_CloseAfterTeardown ==
  [][/\ closeEmitted' # closeEmitted
          => /\ closeSeen'.emitted /\ closeSeen'.released /\ closeSeen'.listener
             /\ cluster => clusterClosed'
             /\ userListener' /\ closeAwait'
     /\ (userListener /\ ~userListener')
          => /\ closeAwait /\ ~closeAwait'
             /\ closeSeen.emitted /\ closeEmitted' = closeEmitted]_vars

\* close() has ended on a session whose pool had a piped connection with a
\* rewriter and an armed retry timer: the listener saw 'close' and is detached
C15_Witness ==
  /\ closed /\ ~closeAwait /\ ~userListener
  /\ closeSeen.emitted /\ closeSeen.listener /\ closeSeen.released
  /\ \E c \in Conns : remote[c].piped /\ remote[c].st = "destroyed"
  /\ \E l \in Locals : local[l].err = "ECONNRESET" /\ local[l].piped

\* C16: no broker socket has had more than one 'dead' event.
C16_DeadAtMostOnce ==
  \A c \in Conns : remote[c].dead <= 1

\* the rewriters that exist for broker socket c
RewritersOf(c) == {x \in transformers : local[x].conn = c}

\* C17: a step leaves a broker socket that is destroyed or closed alone: no
\* local attempt is started for it, no local socket is piped to it and no
\* rewriter is piped from it.
C17_DestroyedSocketUnused ==
  [][\A c \in Conns :
       remote[c].st \in {"destroyed", "closed"}
         => /\ \A l \in Locals :
                  /\ (local[l].st = "none" /\ local'[l].st # "none") => local'[l].conn # c
                  /\ local[l].conn = c => (local'[l].piped = local[l].piped)
            /\ remote'[c].piped = remote[c].piped
            /\ RewritersOf(c)' \subseteq RewritersOf(c)]_vars

\* C18: a broker socket has at most one rewriter, and a rewriter that exists
\* belongs to the latest local attempt of its broker socket.
C18_OneRewriter ==
  \A c \in Conns :
    /\ Cardinality(RewritersOf(c)) <= 1
    /\ \A x \in RewritersOf(c) : \A n \in AttemptsOf(c) : local[n].piped => n <= x

\* the retry timers armed for broker socket c
TimersOf(c) == {l \in pending : local[l].conn = c}

\* C19: of a broker socket's local sockets and retry timers at most one is
\* outstanding (a local socket connecting or connected, or an armed timer),
\* and every attempt but the latest has failed with refused or reset.
C19_OneLocalOneTimer ==
  \A c \in Conns :
    /\ Cardinality({l \in AttemptsOf(c) : LiveLocal(l)}) + Cardinality(TimersOf(c)) <= 1
    /\ \A l \in AttemptsOf(c), n \in AttemptsOf(c) :
         l < n => (local[l].err \in Retryable /\ ~LiveLocal(l) /\ l \notin pending)

\* the retried local socket of a connection is piping after the first one,
\* which was piped too, failed with reset
C19_Witness ==
  \E l \in Locals, n \in Locals :
    /\ l < n /\ local[l].conn = local[n].conn
    /\ local[l].err = "ECONNRESET" /\ local[l].piped
    /\ local[n].st = "connected" /\ local[n].piped
    /\ remote[local[n].conn].st = "open"

\* the step is the 'connect' of broker socket c: 'open' is emitted for it
\* and connLocal runs
ConnectStep(c) == remote[c].st = "connecting" /\ openEvents' = openEvents + 1

\* the step is the firing of the retry timer of local attempt l: connLocal runs
TimerStep(l) == l \in pending /\ l \notin pending' /\ ~clusterClosed'

\* the step creates no local socket and arms no retry timer
NoAttemptStarted ==
  /\ \A n \in Locals : local[n].st = "none" => local'[n].st = "none"
  /\ pending' \subseteq pending

\* C20: a step in which connLocal runs for a broker socket, on its
\* 'connect' or on a retry timer: with the pool closed by then, the broker
\* socket is destroyed, no local socket is created and no 'dead' is emitted;
\* with the pool open and the broker socket destroyed by then, one 'dead' is
\* emitted, no local socket is created and no retry timer is armed.
C20_AttemptStartChecks ==
  [][/\ \A c \in Conns :
          ConnectStep(c)
            => /\ clusterClosed'
                    => /\ remote'[c].st = "destroyed"
                       /\ remote'[c].dead = remote[c].dead
                       /\ NoAttemptStarted
               /\ (~clusterClosed' /\ remote'[c].st = "destroyed")
                    => /\ remote'[c].dead = remote[c].dead + 1
                       /\ NoAttemptStarted
     /\ \A l \in Locals :
          (TimerStep(l) /\ remote[local[l].conn].st \in {"destroyed", "closed"})
            => /\ remote'[local[l].conn].dead = remote[local[l].conn].dead + 1
               /\ NoAttemptStarted]_vars

\* connLocal ran for a broker socket that connected in a pool closed by
\* then: the socket is destroyed, it has no local socket and had no 'dead'
C20_Witness ==
  /\ poolCall.op = "destroy" /\ ~poolCall.closed /\ ~closed
  /\ \E c \in Conns :
       /\ remote[c].st = "destroyed" /\ remote[c].err = "none"
       /\ openEvents >= 1 /\ urlEmitted = 1
       /\ AttemptsOf(c) = {} /\ remote[c].dead = 0

\* the step ends or closes local socket l in an open pool: the socket
\* leaves the connected state, or its 'close' listeners run
LocalCloses(l) ==
  /\ ~clusterClosed'
  /\ \/ local[l].st = "connected" /\ local'[l].st = "destroyed"
     \/ l \in localSockets /\ l \notin localSockets'

C22_TimerSetIsOutstanding ==
  /\ timeouts = pending
  /\ Cardinality(timeouts)
       <= Cardinality({c \in Conns : \E l \in AttemptsOf(c) : local[l].err \in Retryable})

====
